---- MODULE Spec2Model ----
(***************************************************************************)
(* Model of watermill.rs: the sorted sliding window (sorted_window.rs),    *)
(* the generic rolling decorator (rolling.rs), the P-square quantile       *)
(* estimator and the rolling quantile (quantile.rs), and the rolling       *)
(* peak-to-peak (ptp.rs).                                                  *)
(*                                                                         *)
(* Floating-point values F are modelled as exact rationals <<num, den>>    *)
(* (den > 0, lowest terms) plus the values NaN == <<0, 0>>, PosInf ==      *)
(* <<1, 0>> and NegInf == <<-1, 0>>, the results of the machine type for   *)
(* 0/0, x/0 and the operations on them.  Rounding, overflow to infinity    *)
(* and the sign of zero of the machine type are outside the model.         *)
(*                                                                         *)
(* Every object is a tagged record: [tag |-> "Uninit"] before its          *)
(* constructor ran, [tag |-> "Ok", val |-> fields] after a successful      *)
(* construction, [tag |-> "Err"] / [tag |-> "Panic"] when the constructor  *)
(* returned an error result / panicked.  A panicking method leaves the     *)
(* object in the state it had at the panicking line.                       *)
(***************************************************************************)
EXTENDS Integers, Sequences, FiniteSets, TLC

VARIABLES sw, rolling, stat, base, quantile, rq, ptp, hist, call

\* call.op stands before call: two calls are compared by operation first,
\* and the arguments and results of one operation have one type
vars == <<sw, rolling, stat, base, quantile, rq, ptp, hist, call.op, call>>

(***************************************************************************)
(* Bounds of the model.                                                    *)
(***************************************************************************)
\* observations are the integers 0..MaxVal (as rationals)
MaxVal == 2
\* window sizes offered to the constructors are 0..MaxWindow
MaxWindow == 3
\* number of successful pushes on a SortedWindow in one behaviour
MaxPushes == 5
\* window sizes offered to Rolling::new are 0..MaxRollWindow
MaxRollWindow == 3
\* number of updates of a Rolling decorator in one behaviour
MaxRollUpdates == 5
\* number of updates of a Quantile in one behaviour
MaxQUpdates == 8
\* window sizes offered to RollingQuantile::new are 0..MaxRQWindow
MaxRQWindow == 3
\* number of updates of a RollingQuantile in one behaviour
MaxRQUpdates == 5
\* the largest window size offered to RollingPeakToPeak::new
MaxPtpWindow == 3
\* the number of RollingPeakToPeak::update calls that return
MaxPtpUpdates == 5
\* the number of updates fed to the estimators whose reads are compared
MaxReadUpdates == 2
\* number of updates of a RollingQuantile fed finite and infinite values
MaxNonNaNUpdates == 4

(***************************************************************************)
(* Exact arithmetic on F.                                                  *)
(***************************************************************************)
NaN == <<0, 0>>

PosInf == <<1, 0>>

NegInf == <<-1, 0>>

is_nan(x) == x = NaN

\* x is neither NaN nor infinite
is_finite(x) == x[2] # 0

Sign(n) == IF n > 0 THEN 1 ELSE IF n < 0 THEN -1 ELSE 0

Abs(n) == IF n < 0 THEN -n ELSE n

MinInt(a, b) == IF a <= b THEN a ELSE b

RECURSIVE Gcd(_, _)
Gcd(a, b) == IF b = 0 THEN a ELSE Gcd(b, a % b)

\* n/d divided through by g, with a positive denominator
Reduce(n, d, g) == IF d < 0 THEN <<(-n) \div g, (-d) \div g>> ELSE <<n \div g, d \div g>>

\* the rational n/d in lowest terms with a positive denominator; n/0 is the
\* infinity of the sign of n, and 0/0 is NaN
Norm(n, d) == IF d = 0 THEN <<Sign(n), 0>> ELSE Reduce(n, d, Gcd(Abs(n), Abs(d)))

FromInt(n) == <<n, 1>>

\* a + b and a - b over the common denominator, g being the gcd of the denominators
AddOver(a, b, g) == Norm(a[1] * (b[2] \div g) + b[1] * (a[2] \div g), (a[2] \div g) * b[2])

SubOver(a, b, g) == Norm(a[1] * (b[2] \div g) - b[1] * (a[2] \div g), (a[2] \div g) * b[2])

\* a * b with the common factors g1 of a[1], b[2] and g2 of b[1], a[2] cancelled first
MulOver(a, b, g1, g2) ==
    Norm((a[1] \div g1) * (b[1] \div g2), (a[2] \div g2) * (b[2] \div g1))

\* 1 / b for a finite b # 0
Inverse(b) == IF b[1] < 0 THEN <<-b[2], -b[1]>> ELSE <<b[2], b[1]>>

RNeg(a) == <<-a[1], a[2]>>

\* a + b for a NaN or infinite operand: inf + (-inf) is NaN, an infinity
\* absorbs a finite value
add_special(a, b) ==
    IF is_nan(a) \/ is_nan(b) THEN NaN
    ELSE IF ~is_finite(a) THEN (IF ~is_finite(b) /\ b # a THEN NaN ELSE a)
    ELSE b

RAdd(a, b) ==
    IF is_finite(a) /\ is_finite(b) THEN AddOver(a, b, Gcd(a[2], b[2]))
    ELSE add_special(a, b)

\* a - b is a + (-b): inf - inf is NaN
RSub(a, b) ==
    IF is_finite(a) /\ is_finite(b) THEN SubOver(a, b, Gcd(a[2], b[2]))
    ELSE add_special(a, RNeg(b))

\* a * b: inf * 0 is NaN, else an infinity keeps the product of the signs
RMul(a, b) ==
    IF is_finite(a) /\ is_finite(b)
    THEN MulOver(a, b, Gcd(Abs(a[1]), b[2]), Gcd(Abs(b[1]), a[2]))
    ELSE IF is_nan(a) \/ is_nan(b) THEN NaN
    ELSE <<Sign(a[1]) * Sign(b[1]), 0>>

\* a / b for a NaN, infinite or zero operand: 0/0 and inf/inf are NaN, x/0 is
\* the infinity of the sign of x, x/inf is 0
div_special(a, b) ==
    IF is_nan(a) \/ is_nan(b) THEN NaN
    ELSE IF ~is_finite(b) THEN (IF is_finite(a) THEN <<0, 1>> ELSE NaN)
    ELSE IF b[1] = 0 THEN <<Sign(a[1]), 0>>
    ELSE IF ~is_finite(a) THEN <<Sign(a[1]) * Sign(b[1]), 0>>
    ELSE <<0, 1>>

RDiv(a, b) ==
    IF is_finite(a) /\ is_finite(b) /\ a[1] # 0 /\ b[1] # 0 THEN RMul(a, Inverse(b))
    ELSE div_special(a, b)

\* a < b and a <= b over the common denominator
LtOver(a, b, g) == a[1] * (b[2] \div g) < b[1] * (a[2] \div g)

LeOver(a, b, g) == a[1] * (b[2] \div g) <= b[1] * (a[2] \div g)

\* comparisons with NaN are false; -inf is below and inf above every other value
RLt(a, b) ==
    IF is_finite(a) /\ is_finite(b) THEN LtOver(a, b, Gcd(a[2], b[2]))
    ELSE /\ ~is_nan(a) /\ ~is_nan(b)
         /\ (a = NegInf /\ b # NegInf) \/ (b = PosInf /\ a # PosInf)

RLe(a, b) ==
    IF is_finite(a) /\ is_finite(b) THEN LeOver(a, b, Gcd(a[2], b[2]))
    ELSE /\ ~is_nan(a) /\ ~is_nan(b)
         /\ (a = NegInf \/ b = PosInf)

\* Float::floor: the largest integer value at or below a (\div rounds toward
\* minus infinity); NaN and the infinities are their own floor
RFloor(a) == IF is_finite(a) THEN FromInt(a[1] \div a[2]) ELSE a

\* PartialOrd::partial_cmp
partial_cmp(a, b) ==
    IF is_nan(a) \/ is_nan(b) THEN "None"
    ELSE IF RLt(a, b) THEN "Less"
    ELSE IF RLt(b, a) THEN "Greater"
    ELSE "Equal"

(***************************************************************************)
(* Sequences with 0-based ranks, as VecDeque.                              *)
(***************************************************************************)
At(s, i) == s[i + 1]

\* mutant of remove_at: removes the smallest value instead of the one found
remove_at_smallest(s, pos) == Tail(s)

\* VecDeque::remove(pos)
remove_at(s, pos) == SubSeq(s, 1, pos) \o SubSeq(s, pos + 2, Len(s))

\* VecDeque::insert(pos, v)
insert_at(s, pos, v) == SubSeq(s, 1, pos) \o <<v>> \o SubSeq(s, pos + 1, Len(s))

\* the last probe of the search of a slice, at start (base): Ok(start) on a match, else
\* Err(insertion point); expect panics on a comparison with NaN
bsearch_last(start, cmp) ==
    IF cmp = "None" THEN [tag |-> "Panic", idx |-> start]
    ELSE IF cmp = "Equal" THEN [tag |-> "Ok", idx |-> start]
    ELSE [tag |-> "Err", idx |-> IF cmp = "Less" THEN start + 1 ELSE start]

\* the loop of the search of the non-empty slice s for v
\* (|probe| probe.partial_cmp(&v).expect(..)): size elements from start (base) on are
\* left, the probe at start + size / 2 keeps start when it is Greater and moves
\* start to it otherwise, also on a match
RECURSIVE bsearch(_, _, _, _)
bsearch(s, v, start, size) ==
    IF size <= 1 THEN bsearch_last(start, partial_cmp(At(s, start), v))
    ELSE LET half == size \div 2
             cmp == partial_cmp(At(s, start + half), v)
         IN  IF cmp = "None" THEN [tag |-> "Panic", idx |-> start + half]
             ELSE bsearch(s, v, IF cmp = "Greater" THEN start ELSE start + half, size - half)

\* the search of a slice: Ok(index of a match), Err(insertion point) or Panic
slice_search(s, v) ==
    IF s = <<>> THEN [tag |-> "Err", idx |-> 0] ELSE bsearch(s, v, 0, Len(s))

\* a result of the search of the back slice, as an index of the whole ring
offset_by(r, front_len) == [tag |-> r.tag, idx |-> r.idx + front_len]

\* the front lengths as_slices() can give for a ring buffer holding s: the
\* buffer is contiguous (the back slice is empty) or wraps after any element.
\* The standard library leaves the layout open, and with it the rank found
\* among equal values.
as_slices(s) == IF s = <<>> THEN {0} ELSE 1..Len(s)

\* VecDeque::binary_search_by(|probe| probe.partial_cmp(&v).expect(..)) on the
\* ring buffer holding s whose front slice has front_len elements: the first
\* element of the back slice is probed first, and decides on the slice searched
binary_search_by(s, v, front_len) ==
    IF front_len >= Len(s) THEN slice_search(s, v)
    ELSE LET cmp_back == partial_cmp(At(s, front_len), v)
         IN  IF cmp_back = "None" THEN [tag |-> "Panic", idx |-> front_len]
             ELSE IF cmp_back = "Equal" THEN [tag |-> "Ok", idx |-> front_len]
             ELSE IF cmp_back = "Less"
                  THEN offset_by(slice_search(SubSeq(s, front_len + 1, Len(s)), v), front_len)
             ELSE slice_search(SubSeq(s, 1, front_len), v)

\* ascending insertion of v into an ascending sequence
RECURSIVE InsertSorted(_, _)
InsertSorted(s, v) ==
    IF s = <<>> THEN <<v>>
    ELSE IF RLe(v, Head(s)) THEN <<v>> \o s
    ELSE <<Head(s)>> \o InsertSorted(Tail(s), v)

\* the ascending (stable) sort of a sequence of non-NaN values
RECURSIVE SortAsc(_)
SortAsc(s) == IF s = <<>> THEN <<>> ELSE InsertSorted(SortAsc(Tail(s)), Head(s))

(***************************************************************************)
(* SortedWindow (sorted_window.rs).                                        *)
(***************************************************************************)
Uninit == [tag |-> "Uninit"]

SortedWindow_new(window_size) ==
    [sorted_window |-> <<>>, unsorted_window |-> <<>>, window_size |-> window_size]

SortedWindow_len(self) == Len(self.sorted_window)

\* front(): Option::expect("Window is empty")
SortedWindow_front(self) ==
    IF self.sorted_window = <<>> THEN [tag |-> "Panic"]
    ELSE [tag |-> "Ok", val |-> At(self.sorted_window, 0)]

\* mutant of SortedWindow_back: reads the front of the value-ordered sequence
SortedWindow_back_reads_front(self) ==
    IF self.sorted_window = <<>> THEN [tag |-> "Panic"]
    ELSE [tag |-> "Ok", val |-> At(self.sorted_window, 0)]

\* back(): Option::expect("Window is empty")
SortedWindow_back(self) ==
    IF self.sorted_window = <<>> THEN [tag |-> "Panic"]
    ELSE [tag |-> "Ok", val |-> At(self.sorted_window, Len(self.sorted_window) - 1)]

\* Index<usize>: VecDeque indexing panics out of bounds
SortedWindow_index(self, index) ==
    IF index >= Len(self.sorted_window) THEN [tag |-> "Panic"]
    ELSE [tag |-> "Ok", val |-> At(self.sorted_window, index)]

\* mutant of push_rejects: no NaN check
push_rejects_nothing(value) == FALSE

\* the guard of the first line of push_back
push_rejects(value) == is_nan(value)

\* mutant of window_is_full: a window of capacity 0 is never full
window_is_full_nonzero(self) ==
    self.window_size > 0 /\ Len(self.sorted_window) = self.window_size

\* the window is full: the oldest value is evicted first
window_is_full(self) == Len(self.sorted_window) = self.window_size

\* mutant of evict_oldest: the newest value is evicted instead of the oldest
evict_newest(self, front_len) ==
    IF self.unsorted_window = <<>> THEN [tag |-> "Panic", self |-> self]
    ELSE LET newest == self.unsorted_window[Len(self.unsorted_window)]
             popped == [self EXCEPT !.unsorted_window =
                           SubSeq(self.unsorted_window, 1, Len(self.unsorted_window) - 1)]
             pos_to_remove == binary_search_by(self.sorted_window, newest, front_len)
         IN  IF pos_to_remove.tag # "Ok" THEN [tag |-> "Panic", self |-> popped]
             ELSE [tag |-> "Ok",
                   self |-> [popped EXCEPT !.sorted_window =
                                remove_at(self.sorted_window, pos_to_remove.idx)]]

\* the eviction block of push_back: [tag, self]; front_len is the length of
\* the front slice of sorted_window at the search
evict_oldest(self, front_len) ==
    IF self.unsorted_window = <<>> THEN [tag |-> "Panic", self |-> self]
    ELSE LET oldest_unsorted == Head(self.unsorted_window)
             popped == [self EXCEPT !.unsorted_window = Tail(self.unsorted_window)]
             pos_to_remove == binary_search_by(self.sorted_window, oldest_unsorted, front_len)
         IN  IF pos_to_remove.tag # "Ok" THEN [tag |-> "Panic", self |-> popped]
             ELSE [tag |-> "Ok",
                   self |-> [popped EXCEPT !.sorted_window =
                                remove_at(self.sorted_window, pos_to_remove.idx)]]

\* the insertion block of push_back: [tag, self]; front_len is the length of
\* the front slice of sorted_window at the search
insert_newest(self, value, front_len) ==
    LET pushed == [self EXCEPT !.unsorted_window = Append(self.unsorted_window, value)]
        sorted_pos == binary_search_by(self.sorted_window, value, front_len)
    IN  IF sorted_pos.tag = "Panic" THEN [tag |-> "Panic", self |-> pushed]
        ELSE [tag |-> "Ok",
              self |-> [pushed EXCEPT !.sorted_window =
                           insert_at(self.sorted_window, sorted_pos.idx, value)]]

\* the outcomes of the eviction block over the layouts of the ring buffer
evictions(self) ==
    {evict_oldest(self, front_len) : front_len \in as_slices(self.sorted_window)}

\* the outcomes of the insertion block over the layouts of the ring buffer
insertions(self, value) ==
    {insert_newest(self, value, front_len) : front_len \in as_slices(self.sorted_window)}

\* the insertion block runs after an eviction e that did not panic
insertions_after(e, value) == IF e.tag = "Panic" THEN {e} ELSE insertions(e.self, value)

\* push_back(value): the set of the outcomes [tag |-> "Ok" | "Panic", self |->
\* the window afterwards] over the layouts of the ring buffer
SortedWindow_push_back(self, value) ==
    IF push_rejects(value) THEN {[tag |-> "Panic", self |-> self]}
    ELSE IF window_is_full(self)
         THEN UNION {insertions_after(e, value) : e \in evictions(self)}
         ELSE insertions(self, value)

(***************************************************************************)
(* The revertible statistic wrapped by Rolling: a running sum, the         *)
(* statistic of the documentation example of rolling.rs.                   *)
(***************************************************************************)
Sum_new == [sum |-> FromInt(0)]

Sum_update(self, x) == [self EXCEPT !.sum = RAdd(self.sum, x)]

\* revert(x): Result<(), &str>; the sum has an exact inverse and never fails
Sum_revert(self, x) == [tag |-> "Ok", self |-> [self EXCEPT !.sum = RSub(self.sum, x)]]

Sum_get(self) == self.sum

(***************************************************************************)
(* Rolling (rolling.rs).  to_roll is the exclusive borrow of stat.         *)
(***************************************************************************)
\* mutant of Rolling_new: no check of the window size
Rolling_new_unchecked(window_size) ==
    [tag |-> "Ok", val |-> [window_size |-> window_size, window |-> <<>>]]

Rolling_new(window_size) ==
    IF window_size = 0 THEN [tag |-> "Err", err |-> "Window size should not equal to 0"]
    ELSE [tag |-> "Ok", val |-> [window_size |-> window_size, window |-> <<>>]]

\* mutant of fifo_at_capacity: the comparison is off by one
fifo_over_capacity(self) == Len(self.window) > self.window_size

\* the FIFO is at capacity
fifo_at_capacity(self) == Len(self.window) = self.window_size

\* the contract of the wrapped statistic, U: RollableUnivariate<F>: its
\* revert(x) returns Result<(), &str>.  revert_fails is the verdict of the
\* statistic: an Err means that nothing was reverted.
Stat_revert(to_roll, x, revert_fails) ==
    IF revert_fails THEN [tag |-> "Err", self |-> to_roll] ELSE Sum_revert(to_roll, x)

\* mutant of slide: the oldest value is not popped
slide_without_pop(window, x) == Append(window, x)

\* self.window.pop_front(); self.window.push_back(x)
slide(window, x) == Append(Tail(window), x)

\* mutant of revert_then_push: an error of revert is ignored
revert_then_push_unchecked(self, x, oldest, r) ==
    [tag |-> "Ok",
     self |-> [self EXCEPT !.window = slide(self.window, x)],
     to_roll |-> Sum_update(r.self, x),
     reverted |-> <<[arg |-> oldest, ret |-> r.tag]>>]

\* the branch of update for a FIFO at capacity, r being the result of
\* to_roll.revert(oldest): an Err panics before the FIFO is touched
revert_then_push(self, x, oldest, r) ==
    IF r.tag # "Ok"
    THEN [tag |-> "Panic", self |-> self, to_roll |-> r.self, reverted |-> <<[arg |-> oldest, ret |-> r.tag]>>]
    ELSE [tag |-> "Ok",
          self |-> [self EXCEPT !.window = slide(self.window, x)],
          to_roll |-> Sum_update(r.self, x),
          reverted |-> <<[arg |-> oldest, ret |-> r.tag]>>]

\* update(x): [tag |-> "Ok" | "Panic", self, to_roll, reverted], reverted
\* being the calls of to_roll.revert that were made, each with its result
Rolling_update(self, to_roll, x, revert_fails) ==
    IF fifo_at_capacity(self)
    THEN IF self.window = <<>>
         THEN [tag |-> "Panic", self |-> self, to_roll |-> to_roll, reverted |-> <<>>]
         ELSE revert_then_push(self, x, Head(self.window),
                               Stat_revert(to_roll, Head(self.window), revert_fails))
    ELSE [tag |-> "Ok",
          self |-> [self EXCEPT !.window = Append(self.window, x)],
          to_roll |-> Sum_update(to_roll, x),
          reverted |-> <<>>]

Rolling_get(self, to_roll) == Sum_get(to_roll)

(***************************************************************************)
(* Quantile, the P-square estimator (quantile.rs).                         *)
(***************************************************************************)
\* f.to_usize(): the truncation toward zero of a finite value above -1, else None
to_usize(f) ==
    IF ~is_finite(f) \/ ~RLt(FromInt(-1), f) THEN [tag |-> "None"]
    ELSE IF RLt(f, FromInt(0)) THEN [tag |-> "Some", val |-> 0]
    ELSE [tag |-> "Some", val |-> RFloor(f)[1]]

\* Float::max: a NaN operand is ignored
RMax(a, b) ==
    IF is_nan(a) THEN b ELSE IF is_nan(b) THEN a ELSE IF RLt(a, b) THEN b ELSE a

\* Float::min: a NaN operand is ignored
RMin(a, b) ==
    IF is_nan(a) THEN b ELSE IF is_nan(b) THEN a ELSE IF RLt(b, a) THEN b ELSE a

\* the test of the first line of Quantile::new and RollingQuantile::new
q_is_rejected(q) == RLt(q, FromInt(0)) /\ RLt(FromInt(1), q)

Quantile_new(q) ==
    IF q_is_rejected(q) THEN [tag |-> "Err", err |-> "q should be betweek 0 and 1"]
    ELSE [tag |-> "Ok",
          val |-> [q |-> q,
                   desired_marker_position |->
                       <<FromInt(0), RDiv(q, FromInt(2)), q,
                         RDiv(RAdd(FromInt(1), q), FromInt(2)), FromInt(1)>>,
                   marker_position |->
                       <<FromInt(1), RAdd(FromInt(1), RMul(FromInt(2), q)),
                         RAdd(FromInt(1), RMul(FromInt(4), q)),
                         RAdd(FromInt(3), RMul(FromInt(2), q)), FromInt(5)>>,
                   position |-> [i \in 1..5 |-> FromInt(i)],
                   heights |-> <<>>,
                   heights_sorted |-> FALSE]]

\* Default::default(): the estimator of the median
Quantile_default ==
    [q |-> RDiv(FromInt(1), FromInt(2)),
     desired_marker_position |->
         <<FromInt(0), RDiv(RDiv(FromInt(1), FromInt(2)), FromInt(2)),
           RDiv(FromInt(1), FromInt(2)),
           RDiv(RAdd(FromInt(1), RDiv(FromInt(1), FromInt(2))), FromInt(2)), FromInt(1)>>,
     marker_position |->
         <<FromInt(1), RAdd(FromInt(1), RMul(FromInt(2), RDiv(FromInt(1), FromInt(2)))),
           RAdd(FromInt(1), RMul(FromInt(4), RDiv(FromInt(1), FromInt(2)))),
           RAdd(FromInt(3), RMul(FromInt(2), RDiv(FromInt(1), FromInt(2)))), FromInt(5)>>,
     position |-> [i \in 1..5 |-> FromInt(i)],
     heights |-> <<>>,
     heights_sorted |-> FALSE]

\* the first i in lo..4 with heights[i-1] <= x < heights[i], or 0 if none
RECURSIVE find_cell(_, _, _)
find_cell(heights, x, i) ==
    IF i > 4 THEN 0
    ELSE IF RLe(At(heights, i - 1), x) /\ RLt(x, At(heights, i)) THEN i
    ELSE find_cell(heights, x, i + 1)

\* mutant of find_k_cell: the last height is not raised to a larger value
find_k_cell_unraised(heights, x, c) ==
    IF c # 0 THEN [k |-> c, heights |-> heights] ELSE [k |-> 4, heights |-> heights]

\* the end of find_k, c being the cell the loop found or 0
find_k_cell(heights, x, c) ==
    IF c # 0 THEN [k |-> c, heights |-> heights]
    ELSE [k |-> 4,
          heights |-> IF RLt(heights[Len(heights)], x)
                      THEN [heights EXCEPT ![Len(heights)] = x]
                      ELSE heights]

\* find_k(x): [k, heights]
find_k(heights, x) ==
    IF RLt(x, At(heights, 0))
    THEN [k |-> 1, heights |-> [heights EXCEPT ![1] = x]]
    ELSE find_k_cell(heights, x, find_cell(heights, x, 1))

compute_p2(qp1, q, qm1, d, np1, n, nm1) ==
    LET outer == RDiv(d, RSub(np1, nm1))
        inner_left == RDiv(RMul(RAdd(RSub(n, nm1), d), RSub(qp1, q)), RSub(np1, n))
        inner_right == RDiv(RMul(RSub(RSub(np1, n), d), RSub(q, qm1)), RSub(n, nm1))
    IN  RAdd(q, RMul(outer, RAdd(inner_left, inner_right)))

\* 1.copysign(d)
copysign_one(d) == IF RLt(d, FromInt(0)) THEN FromInt(-1) ELSE FromInt(1)

\* mutant of must_move: the gap to the neighbouring position is not tested
must_move_ungapped(self, i, d, n) == RLe(FromInt(1), d) \/ RLe(d, FromInt(-1))

\* mutant of must_move: the distance to the desired position must exceed 1
must_move_strict(self, i, d, n) ==
    \/ RLt(FromInt(1), d) /\ RLt(FromInt(1), RSub(At(self.position, i + 1), n))
    \/ RLt(d, FromInt(-1)) /\ RLt(RSub(At(self.position, i - 1), n), FromInt(-1))

\* the condition under which marker i is moved
must_move(self, i, d, n) ==
    \/ RLe(FromInt(1), d) /\ RLt(FromInt(1), RSub(At(self.position, i + 1), n))
    \/ RLe(d, FromInt(-1)) /\ RLt(RSub(At(self.position, i - 1), n), FromInt(-1))

\* mutant of p2_accepted: the parabolic value is always kept
p2_always_accepted(qm1, qn, qp1) == TRUE

\* mutant of p2_accepted: only the lower neighbour is compared
p2_accepted_above(qm1, qn, qp1) == RLt(qm1, qn)

\* the parabolic value is kept when it lies strictly between the neighbours
p2_accepted(qm1, qn, qp1) == RLt(qm1, qn) /\ RLt(qn, qp1)

\* the linear fallback toward the neighbour linear_index
linear(self, q, d, n, linear_index) ==
    RAdd(q, RDiv(RMul(d, RSub(At(self.heights, linear_index), q)),
                 RSub(At(self.position, linear_index), n)))

\* the new height of marker i: the parabolic value qn or the linear fallback
new_height(self, i, q, d, n, qm1, qn, qp1) ==
    IF p2_accepted(qm1, qn, qp1) THEN qn ELSE linear(self, q, d, n, i + d[1])

\* marker i is moved by d = +1 or -1
move_marker(self, i, q, d, n) ==
    [self EXCEPT
        !.heights[i + 1] =
            new_height(self, i, q, d, n, At(self.heights, i - 1),
                       compute_p2(At(self.heights, i + 1), q, At(self.heights, i - 1), d,
                                  At(self.position, i + 1), n, At(self.position, i - 1)),
                       At(self.heights, i + 1)),
        !.position[i + 1] = RAdd(n, d)]

\* the body of the loop of adjust, d being marker_position[i] - n
adjust_by(self, i, q, d, n) ==
    IF must_move(self, i, d, n) THEN move_marker(self, i, q, copysign_one(d), n) ELSE self

\* one iteration of the loop of adjust, for the interior marker i
adjust_marker(self, i) ==
    adjust_by(self, i, At(self.heights, i),
              RSub(At(self.marker_position, i), At(self.position, i)),
              At(self.position, i))

\* adjust(): the interior markers 1, 2, 3 in turn
adjust(self) == adjust_marker(adjust_marker(adjust_marker(self, 1), 2), 3)

\* heights.sort_by(|x, y| x.partial_cmp(y).unwrap()): a comparison with NaN panics
\* the insertion sort of a short slice dies at the first comparison with a NaN:
\* the values before the first NaN are sorted by then, the rest is untouched
sorted_before_nan(s, first_nan) ==
    SortAsc(SubSeq(s, 1, first_nan - 1)) \o SubSeq(s, first_nan, Len(s))

sort_heights(self) ==
    IF Len(self.heights) >= 2 /\ \E i \in 1..Len(self.heights) : is_nan(self.heights[i])
    THEN [tag |-> "Panic",
          self |-> [self EXCEPT !.heights =
                       sorted_before_nan(self.heights,
                           CHOOSE i \in 1..Len(self.heights) :
                               /\ is_nan(self.heights[i])
                               /\ \A j \in 1..(i - 1) : ~is_nan(self.heights[j]))]]
    ELSE [tag |-> "Ok", self |-> [self EXCEPT !.heights = SortAsc(self.heights)]]

\* mutant of shift_markers: marker_position is not moved on
shift_markers_without_targets(self, fk) ==
    [self EXCEPT
        !.heights = fk.heights,
        !.position = [index \in 1..5 |->
            IF index - 1 >= fk.k
            THEN RAdd(self.position[index], FromInt(1))
            ELSE self.position[index]]]

\* the cell fk found by find_k is applied: the positions from k on and every
\* marker_position move on
shift_markers(self, fk) ==
    [self EXCEPT
        !.heights = fk.heights,
        !.position = [index \in 1..5 |->
            IF index - 1 >= fk.k
            THEN RAdd(self.position[index], FromInt(1))
            ELSE self.position[index]],
        !.marker_position = [index \in 1..5 |->
            RAdd(self.marker_position[index], self.desired_marker_position[index])]]

\* find_k, the two increments and adjust
p2_cycle(self, x) == adjust(shift_markers(self, find_k(self.heights, x)))

\* mutant of p2_sorted: the flag heights_sorted is not set
p2_sorted_unmarked(s, x) ==
    IF s.tag = "Panic" THEN s ELSE [tag |-> "Ok", self |-> p2_cycle(s.self, x)]

\* the first sort of the five collected heights; s is the result of sort_heights
p2_sorted(s, x) ==
    IF s.tag = "Panic" THEN s
    ELSE [tag |-> "Ok", self |-> p2_cycle([s.self EXCEPT !.heights_sorted = TRUE], x)]

\* the steady-state branch of update, before the final sort
p2_step(self, x) ==
    IF self.heights_sorted THEN [tag |-> "Ok", self |-> p2_cycle(self, x)]
    ELSE p2_sorted(sort_heights(self), x)

\* the result r of update, with the heights as they were before the final sort
with_trace(r, heights) == [tag |-> r.tag, self |-> r.self, before_sort |-> heights]

\* the final sort of update; s is the result of the branch taken
final_sort(s) ==
    with_trace(IF s.tag = "Panic" THEN s ELSE sort_heights(s.self), s.self.heights)

\* the branch of update: the value is collected, or the P-square cycle runs
update_branch(self, x) ==
    IF Len(self.heights) # 5
    THEN [tag |-> "Ok", self |-> [self EXCEPT !.heights = Append(self.heights, x)]]
    ELSE p2_step(self, x)

\* update(x): [tag |-> "Ok" | "Panic", self, before_sort]
Quantile_update(self, x) == final_sort(update_branch(self, x))

\* mutant of height_at: a missing height reads as 0
height_at_or_zero(self, index) ==
    IF index.tag = "None" \/ index.val >= Len(self.heights)
    THEN [tag |-> "Ok", val |-> FromInt(0)]
    ELSE [tag |-> "Ok", val |-> At(self.heights, index.val)]

\* heights[index] with index the Option of to_usize: unwrap and the index may panic
height_at(self, index) ==
    IF index.tag = "None" \/ index.val >= Len(self.heights)
    THEN [tag |-> "Panic"]
    ELSE [tag |-> "Ok", val |-> At(self.heights, index.val)]

\* mutant of filling_index: the index is not capped at length - 1
filling_index_uncapped(length, q) == to_usize(RMul(length, q))

\* the index get() reads while heights_sorted is false
filling_index(length, q) ==
    to_usize(RMin(RMax(RSub(length, FromInt(1)), FromInt(0)), RMul(length, q)))

\* get(): [tag |-> "Ok", val] or [tag |-> "Panic"]
Quantile_get(self) ==
    IF self.heights_sorted THEN [tag |-> "Ok", val |-> At(self.heights, 2)]
    ELSE height_at(self, filling_index(FromInt(Len(self.heights)), self.q))

(***************************************************************************)
(* RollingQuantile (quantile.rs).  overflow_checks tells whether the build *)
(* panics on usize overflow (debug) or wraps (release).                    *)
(***************************************************************************)
\* usize::MAX stands above every rank of the model
usize_MAX == 1000000

\* a - 1 on usize
usize_minus_one(a, overflow_checks) ==
    IF a > 0 THEN [tag |-> "Ok", val |-> a - 1]
    ELSE IF overflow_checks THEN [tag |-> "Panic"]
    ELSE [tag |-> "Ok", val |-> usize_MAX]

\* usize::saturating_sub(1)
saturating_sub_one(a) == IF a > 0 THEN a - 1 ELSE 0

\* mutant of new_with_ranks: higher is lower + 1 without the clamp
new_with_ranks_unclamped(q, window_size, idx, lower, last) ==
    IF last.tag = "Panic" THEN [tag |-> "Panic"]
    ELSE [tag |-> "Ok",
          val |-> [sorted_window |-> SortedWindow_new(window_size),
                   q |-> q,
                   window_size |-> window_size,
                   lower |-> lower,
                   higher |-> lower + 1,
                   frac |-> RSub(idx, FromInt(lower))]]

\* the end of new: last is window_size - 1, or its overflow
new_with_ranks(q, window_size, idx, lower, last) ==
    IF last.tag = "Panic" THEN [tag |-> "Panic"]
    ELSE [tag |-> "Ok",
          val |-> [sorted_window |-> SortedWindow_new(window_size),
                   q |-> q,
                   window_size |-> window_size,
                   lower |-> lower,
                   higher |-> IF lower + 1 > last.val
                              THEN saturating_sub_one(lower) ELSE lower + 1,
                   frac |-> RSub(idx, FromInt(lower))]]

\* new after the computation of idx: lower is idx.floor().to_usize()
new_with_lower(q, window_size, idx, lower, overflow_checks) ==
    IF lower.tag = "None" THEN [tag |-> "Panic"]
    ELSE new_with_ranks(q, window_size, idx, lower.val,
                        usize_minus_one(window_size, overflow_checks))

\* new after the range check
new_with_idx(q, window_size, idx, overflow_checks) ==
    new_with_lower(q, window_size, idx, to_usize(RFloor(idx)), overflow_checks)

\* RollingQuantile::new(q, window_size): Ok(estimator), Err(message) or a panic
RollingQuantile_new(q, window_size, overflow_checks) ==
    IF q_is_rejected(q) THEN [tag |-> "Err", err |-> "q should be betweek 0 and 1"]
    ELSE new_with_idx(q, window_size,
                      RMul(q, RSub(FromInt(window_size), FromInt(1))), overflow_checks)

\* mutant of window_is_filling: the ranks cached by new are always used
window_never_filling(self) == FALSE

\* the test of prepare: the window is not full yet
window_is_filling(self) == SortedWindow_len(self.sorted_window) < self.window_size

\* mutant of prepare_ranks: higher is lower + 1 without the clamp
prepare_ranks_unclamped(self, idx, lower, last) ==
    IF last.tag = "Panic" THEN [tag |-> "Panic"]
    ELSE [tag |-> "Ok", lower |-> lower, higher |-> lower + 1,
          frac |-> RSub(idx, FromInt(lower))]

\* the end of the filling branch of prepare: last is len - 1, or its overflow
prepare_ranks(self, idx, lower, last) ==
    IF last.tag = "Panic" THEN [tag |-> "Panic"]
    ELSE [tag |-> "Ok",
          lower |-> lower,
          higher |-> IF lower + 1 > last.val
                     THEN saturating_sub_one(SortedWindow_len(self.sorted_window))
                     ELSE lower + 1,
          frac |-> RSub(idx, FromInt(lower))]

\* the filling branch of prepare: lower is idx.floor().to_usize()
prepare_lower(self, idx, lower, overflow_checks) ==
    IF lower.tag = "None" THEN [tag |-> "Panic"]
    ELSE prepare_ranks(self, idx, lower.val,
                       usize_minus_one(SortedWindow_len(self.sorted_window), overflow_checks))

prepare_idx(self, idx, overflow_checks) ==
    prepare_lower(self, idx, to_usize(RFloor(idx)), overflow_checks)

\* prepare(): (lower, higher, frac), or a panic
prepare(self, overflow_checks) ==
    IF window_is_filling(self)
    THEN prepare_idx(self,
                     RMul(self.q, RSub(FromInt(SortedWindow_len(self.sorted_window)),
                                       FromInt(1))),
                     overflow_checks)
    ELSE [tag |-> "Ok", lower |-> self.lower, higher |-> self.higher, frac |-> self.frac]

\* update(x)
RollingQuantile_update(self, x, pushed) ==
    [tag |-> pushed.tag, self |-> [self EXCEPT !.sorted_window = pushed.self]]

\* window[lower] + (window[higher] - window[lower]) * frac
interpolate(lo, hi, frac) ==
    IF lo.tag = "Panic" \/ hi.tag = "Panic" THEN [tag |-> "Panic"]
    ELSE [tag |-> "Ok", val |-> RAdd(lo.val, RMul(RSub(hi.val, lo.val), frac))]

\* get() for the ranks p that prepare returned
get_prepared(self, p) ==
    IF p.tag = "Panic" THEN [tag |-> "Panic"]
    ELSE interpolate(SortedWindow_index(self.sorted_window, p.lower),
                     SortedWindow_index(self.sorted_window, p.higher), p.frac)

\* get(): [tag |-> "Ok", val] or [tag |-> "Panic"]
RollingQuantile_get(self, overflow_checks) == get_prepared(self, prepare(self, overflow_checks))

(***************************************************************************)
(* RollingMin and RollingMax (minimum.rs, maximum.rs): the window-based    *)
(* rolling variants, each over a SortedWindow of its own.                  *)
(***************************************************************************)
RollingMin_new(window_size) == [sorted_window |-> SortedWindow_new(window_size)]

\* update(x): [tag |-> "Ok" | "Panic", self]; pushed is the push_back of x
RollingMin_update(self, pushed) ==
    [tag |-> pushed.tag, self |-> [self EXCEPT !.sorted_window = pushed.self]]

\* get(): the smallest value of the window
RollingMin_get(self) == SortedWindow_front(self.sorted_window)

RollingMax_new(window_size) == [sorted_window |-> SortedWindow_new(window_size)]

RollingMax_update(self, pushed) ==
    [tag |-> pushed.tag, self |-> [self EXCEPT !.sorted_window = pushed.self]]

\* get(): the largest value of the window
RollingMax_get(self) == SortedWindow_back(self.sorted_window)

(***************************************************************************)
(* RollingPeakToPeak (ptp.rs).                                             *)
(***************************************************************************)
RollingPeakToPeak_new(window_size) ==
    [min |-> RollingMin_new(window_size), max |-> RollingMax_new(window_size)]

\* mutant of feed_max: the value is not passed on to the max tracker
feed_max_skipped(self, x, m, pushed) ==
    [tag |-> m.tag, self |-> [self EXCEPT !.min = m.self]]

\* self.max.update(x) after self.min.update(x) returned m; pushed is the
\* push_back of x on the window of the max tracker
feed_max(self, x, m, pushed) ==
    IF m.tag = "Panic" THEN [tag |-> "Panic", self |-> [self EXCEPT !.min = m.self]]
    ELSE [tag |-> RollingMax_update(self.max, pushed).tag,
          self |-> [self EXCEPT !.min = m.self,
                                !.max = RollingMax_update(self.max, pushed).self]]

\* update(x): [tag |-> "Ok" | "Panic", self]; pushed_min and pushed_max are
\* the push_back of x on the windows of the two trackers
RollingPeakToPeak_update(self, x, pushed_min, pushed_max) ==
    feed_max(self, x, RollingMin_update(self.min, pushed_min), pushed_max)

\* max - min of two reads, either of which may have panicked
peak_minus_trough(hi, lo) ==
    IF hi.tag = "Panic" \/ lo.tag = "Panic" THEN [tag |-> "Panic"]
    ELSE [tag |-> "Ok", val |-> RSub(hi.val, lo.val)]

\* get(): self.max.get() - self.min.get()
RollingPeakToPeak_get(self) ==
    peak_minus_trough(RollingMax_get(self.max), RollingMin_get(self.min))

(***************************************************************************)
(* Inputs.                                                                 *)
(***************************************************************************)
Vals == {FromInt(v) : v \in 0..MaxVal}

Floats == Vals \cup {NaN}

\* the values push_back accepts: the finite ones and the two infinities
NonNaN == Vals \cup {PosInf, NegInf}

WindowSizes == 0..MaxWindow

NoCall == [op |-> "none"]

\* quantile targets offered to the constructors, two of them out of range
Qs == {<<-1, 2>>, <<0, 1>>, <<1, 4>>, <<1, 2>>, <<1, 1>>, <<3, 2>>}

InRange(q) == RLe(FromInt(0), q) /\ RLe(q, FromInt(1))

\* observations fed to a Quantile: three values at unequal distances
QVals == {FromInt(0), FromInt(1), FromInt(3)}

(***************************************************************************)
(* The SortedWindow driven by a caller: hist is the sequence of values     *)
(* whose push_back returned, call the last call with its outcome.          *)
(***************************************************************************)
SW_New(window_size) ==
    /\ sw.tag = "Uninit"
    /\ sw' = [tag |-> "Ok", val |-> SortedWindow_new(window_size)]
    /\ call' = [op |-> "new", arg |-> window_size, ret |-> "Ok"]
    /\ UNCHANGED <<ptp, rolling, stat, base, quantile, rq, hist>>

SW_PushBack(value) ==
    /\ sw.tag = "Ok"
    /\ Len(hist) < MaxPushes
    /\ \E r \in SortedWindow_push_back(sw.val, value) :
           /\ sw' = [sw EXCEPT !.val = r.self]
           /\ hist' = IF r.tag = "Ok" THEN Append(hist, value) ELSE hist
           /\ call' = [op |-> "push_back", arg |-> value, ret |-> r.tag]
    /\ UNCHANGED <<ptp, rolling, stat, base, quantile, rq>>

SW_Front ==
    /\ sw.tag = "Ok"
    /\ call' = [op |-> "front", arg |-> 0, ret |-> SortedWindow_front(sw.val)]
    /\ UNCHANGED <<ptp, sw, rolling, stat, base, quantile, rq, hist>>

SW_Back ==
    /\ sw.tag = "Ok"
    /\ call' = [op |-> "back", arg |-> 0, ret |-> SortedWindow_back(sw.val)]
    /\ UNCHANGED <<ptp, sw, rolling, stat, base, quantile, rq, hist>>

SW_Index(index) ==
    /\ sw.tag = "Ok"
    /\ call' = [op |-> "index", arg |-> index, ret |-> SortedWindow_index(sw.val, index)]
    /\ UNCHANGED <<ptp, sw, rolling, stat, base, quantile, rq, hist>>

Init ==
    /\ sw = Uninit
    /\ rolling = Uninit
    /\ stat = Sum_new
    /\ base = Sum_new
    /\ quantile = Uninit
    /\ rq = Uninit
    /\ ptp = Uninit
    /\ hist = <<>>
    /\ call = NoCall

NextSW ==
    \/ \E n \in WindowSizes : SW_New(n)
    \/ \E x \in Floats : SW_PushBack(x)
    \/ SW_Front
    \/ SW_Back
    \/ \E i \in 0..MaxWindow : SW_Index(i)

SpecSW == Init /\ [][NextSW]_vars

(***************************************************************************)
(* The Rolling decorator driven by a caller.  The statistic may have been  *)
(* used before it is wrapped; base is its state when Rolling::new took it, *)
(* hist the values passed to Rolling::update.                              *)
(***************************************************************************)
Stat_Update(x) ==
    /\ rolling.tag = "Uninit"
    /\ RLe(RAdd(stat.sum, x), FromInt(MaxVal))
    /\ stat' = Sum_update(stat, x)
    /\ call' = [op |-> "stat_update", arg |-> x, ret |-> "Ok"]
    /\ UNCHANGED <<ptp, sw, rolling, base, quantile, rq, hist>>

Rolling_New(window_size) ==
    /\ rolling.tag = "Uninit"
    /\ rolling' = Rolling_new(window_size)
    /\ base' = stat
    /\ call' = [op |-> "new", arg |-> window_size, ret |-> rolling'.tag]
    /\ UNCHANGED <<ptp, sw, stat, quantile, rq, hist>>

Rolling_Update(x, revert_fails) ==
    /\ rolling.tag = "Ok"
    /\ Len(hist) < MaxRollUpdates
    /\ \E r \in {Rolling_update(rolling.val, stat, x, revert_fails)} :
           /\ rolling' = [rolling EXCEPT !.val = r.self]
           /\ stat' = r.to_roll
           /\ hist' = IF r.tag = "Ok" THEN Append(hist, x) ELSE hist
           /\ call' = [op |-> "update", arg |-> x, ret |-> r.tag, reverted |-> r.reverted]
    /\ UNCHANGED <<ptp, sw, base, quantile, rq>>

Rolling_Get ==
    /\ rolling.tag = "Ok"
    /\ call' = [op |-> "get", arg |-> 0, ret |-> Rolling_get(rolling.val, stat)]
    /\ UNCHANGED <<ptp, sw, rolling, stat, base, quantile, rq, hist>>

NextRolling ==
    \/ \E x \in Vals : Stat_Update(x)
    \/ \E n \in 0..MaxRollWindow : Rolling_New(n)
    \/ \E x \in Vals, revert_fails \in BOOLEAN : Rolling_Update(x, revert_fails)
    \/ Rolling_Get

SpecRolling == Init /\ [][NextRolling]_vars

(***************************************************************************)
(* The Quantile driven by a caller; hist is the stream of observations.    *)
(* get() takes &self and is read off the state by Quantile_get.            *)
(***************************************************************************)
Quantile_New(q) ==
    /\ quantile.tag = "Uninit"
    /\ quantile' = Quantile_new(q)
    /\ call' = [op |-> "Quantile::new", arg |-> q, ret |-> quantile'.tag]
    /\ UNCHANGED <<ptp, sw, rolling, stat, base, rq, hist>>

Quantile_Update(x) ==
    /\ quantile.tag = "Ok"
    /\ Len(hist) < MaxQUpdates
    /\ \E r \in {Quantile_update(quantile.val, x)} :
           /\ quantile' = [quantile EXCEPT !.val = r.self]
           /\ hist' = IF r.tag = "Ok" THEN Append(hist, x) ELSE hist
           /\ call' = [op |-> "update", arg |-> x, ret |-> r.tag,
                       before_sort |-> r.before_sort]
    /\ UNCHANGED <<ptp, sw, rolling, stat, base, rq>>

NextQuantile ==
    \/ \E q \in Qs : Quantile_New(q)
    \/ \E x \in QVals : Quantile_Update(x)

SpecQuantile == Init /\ [][NextQuantile]_vars

(***************************************************************************)
(* The documentation example of Quantile: the stream of the example is     *)
(* fed in order to an estimator and get() is called between the updates.   *)
(***************************************************************************)
\* let data = vec![9.,7.,3.,2.,6.,1.,8.,5.,4.]
DocData == <<9, 7, 3, 2, 6, 1, 8, 5, 4>>

\* the values of DocData as floats
DocStream == [i \in 1..Len(DocData) |-> FromInt(DocData[i])]

\* let mut running_quantile: Quantile<f64> = Quantile::default()
Quantile_Default ==
    /\ quantile.tag = "Uninit"
    /\ quantile' = [tag |-> "Ok", val |-> Quantile_default]
    /\ call' = [op |-> "Quantile::default", arg |-> 0, ret |-> "Ok"]
    /\ UNCHANGED <<ptp, sw, rolling, stat, base, rq, hist>>

\* for x in data.iter() { running_quantile.update(*x) }: the next value is fed
Doc_Update ==
    /\ Len(hist) < Len(DocStream)
    /\ hist = SubSeq(DocStream, 1, Len(hist))
    /\ quantile.tag = "Ok"
    /\ \E r \in {Quantile_update(quantile.val, DocStream[Len(hist) + 1])} :
           /\ quantile' = [quantile EXCEPT !.val = r.self]
           /\ hist' = IF r.tag = "Ok" THEN Append(hist, DocStream[Len(hist) + 1]) ELSE hist
           /\ call' = [op |-> "update", arg |-> DocStream[Len(hist) + 1], ret |-> r.tag,
                       before_sort |-> r.before_sort]
    /\ UNCHANGED <<ptp, sw, rolling, stat, base, rq>>

Quantile_Get ==
    /\ quantile.tag = "Ok"
    /\ call' = [op |-> "get", arg |-> 0, ret |-> Quantile_get(quantile.val)]
    /\ UNCHANGED <<ptp, sw, rolling, stat, base, quantile, rq, hist>>

NextDoc ==
    \/ Quantile_Default
    \/ \E q \in Qs : Quantile_New(q)
    \/ Doc_Update
    \/ Quantile_Get

SpecDoc == Init /\ [][NextDoc]_vars

(***************************************************************************)
(* The RollingQuantile driven by a caller; hist is the stream of           *)
(* observations whose update returned.  get() takes &self and is read off  *)
(* the state by RollingQuantile_get.                                       *)
(***************************************************************************)
RQ_New(q, window_size, overflow_checks) ==
    /\ rq.tag = "Uninit"
    /\ rq' = RollingQuantile_new(q, window_size, overflow_checks)
    /\ call' = [op |-> "RollingQuantile::new", arg |-> <<q, window_size>>, ret |-> rq'.tag]
    /\ UNCHANGED <<ptp, sw, rolling, stat, base, quantile, hist>>

RQ_Update(x) ==
    /\ rq.tag = "Ok"
    /\ Len(hist) < MaxRQUpdates
    /\ \E r \in {RollingQuantile_update(rq.val, x, pushed) :
                     pushed \in SortedWindow_push_back(rq.val.sorted_window, x)} :
           /\ rq' = [rq EXCEPT !.val = r.self]
           /\ hist' = IF r.tag = "Ok" THEN Append(hist, x) ELSE hist
           /\ call' = [op |-> "update", arg |-> x, ret |-> r.tag]
    /\ UNCHANGED <<ptp, sw, rolling, stat, base, quantile>>

NextRQ ==
    \/ \E q \in Qs, n \in 0..MaxRQWindow, oc \in BOOLEAN : RQ_New(q, n, oc)
    \/ \E x \in Vals : RQ_Update(x)

SpecRQ == Init /\ [][NextRQ]_vars

(***************************************************************************)
(* The RollingQuantile fed every value update accepts, the infinities      *)
(* included.                                                               *)
(***************************************************************************)
RQ_UpdateNonNaN(x) == Len(hist) < MaxNonNaNUpdates /\ RQ_Update(x)

NextRQNonNaN ==
    \/ \E q \in Qs, n \in 0..MaxRQWindow, oc \in BOOLEAN : RQ_New(q, n, oc)
    \/ \E x \in NonNaN : RQ_UpdateNonNaN(x)

SpecRQNonNaN == Init /\ [][NextRQNonNaN]_vars

(***************************************************************************)
(* The two constructors of quantile.rs called in any order.                *)
(***************************************************************************)
NextNew ==
    \/ \E q \in Qs : Quantile_New(q)
    \/ \E q \in Qs, n \in 0..MaxRQWindow, oc \in BOOLEAN : RQ_New(q, n, oc)

SpecNew == Init /\ [][NextNew]_vars

(***************************************************************************)
(* The RollingPeakToPeak driven by a caller; hist is the stream of         *)
(* observations whose update returned.                                     *)
(***************************************************************************)
Ptp_New(window_size) ==
    /\ ptp.tag = "Uninit"
    /\ ptp' = [tag |-> "Ok", val |-> RollingPeakToPeak_new(window_size)]
    /\ call' = [op |-> "new", arg |-> window_size, ret |-> "Ok"]
    /\ UNCHANGED <<sw, rolling, stat, base, quantile, rq, hist>>

Ptp_Update(x) ==
    /\ ptp.tag = "Ok"
    /\ Len(hist) < MaxPtpUpdates
    /\ \E r \in {RollingPeakToPeak_update(ptp.val, x, pushed_min, pushed_max) :
                     pushed_min \in SortedWindow_push_back(ptp.val.min.sorted_window, x),
                     pushed_max \in SortedWindow_push_back(ptp.val.max.sorted_window, x)} :
           /\ ptp' = [ptp EXCEPT !.val = r.self]
           /\ hist' = IF r.tag = "Ok" THEN Append(hist, x) ELSE hist
           /\ call' = [op |-> "update", arg |-> x, ret |-> r.tag]
    /\ UNCHANGED <<sw, rolling, stat, base, quantile, rq>>

Ptp_Get ==
    /\ ptp.tag = "Ok"
    /\ call' = [op |-> "get", arg |-> 0, ret |-> RollingPeakToPeak_get(ptp.val)]
    /\ UNCHANGED <<sw, rolling, stat, base, quantile, rq, ptp, hist>>

NextPtp ==
    \/ \E n \in 0..MaxPtpWindow : Ptp_New(n)
    \/ \E x \in Floats : Ptp_Update(x)
    \/ Ptp_Get

SpecPtp == Init /\ [][NextPtp]_vars

(***************************************************************************)
(* A Quantile and a RollingQuantile read by a caller before and after      *)
(* their first observations; hist is the stream fed to either.             *)
(***************************************************************************)
RQ_Get(overflow_checks) ==
    /\ rq.tag = "Ok"
    /\ call' = [op |-> "RollingQuantile::get", arg |-> 0,
                ret |-> RollingQuantile_get(rq.val, overflow_checks)]
    /\ UNCHANGED <<sw, rolling, stat, base, quantile, rq, ptp, hist>>

Read_QuantileUpdate(x) == Len(hist) < MaxReadUpdates /\ Quantile_Update(x)

Read_RQUpdate(x) == Len(hist) < MaxReadUpdates /\ RQ_Update(x)

NextRead ==
    \/ \E q \in Qs : Quantile_New(q)
    \/ \E q \in Qs, n \in 0..MaxRQWindow, oc \in BOOLEAN : RQ_New(q, n, oc)
    \/ \E x \in QVals : Read_QuantileUpdate(x)
    \/ \E x \in Vals : Read_RQUpdate(x)
    \/ Quantile_Get
    \/ \E oc \in BOOLEAN : RQ_Get(oc)

SpecRead == Init /\ [][NextRead]_vars

(***************************************************************************)
(* Reference definitions used to state the properties.                     *)
(***************************************************************************)
\* the last n elements of s
LastN(s, n) == SubSeq(s, Len(s) - n + 1, Len(s))

\* the values a window of capacity n holds after the pushes of hist
Held(n) == LastN(hist, MinInt(n, Len(hist)))

MinOf(s) == CHOOSE m \in {s[i] : i \in 1..Len(s)} : \A j \in 1..Len(s) : RLe(m, s[j])

MaxOf(s) == CHOOSE m \in {s[i] : i \in 1..Len(s)} : \A j \in 1..Len(s) : RLe(s[j], m)

\* the number of occurrences of v in s
Count(s, v) == Cardinality({i \in 1..Len(s) : s[i] = v})

\* s and r hold the same multiset of values
SameMultiset(s, r) ==
    /\ Len(s) = Len(r)
    /\ \A i \in 1..Len(s) : Count(s, s[i]) = Count(r, s[i])

(***************************************************************************)
(* Properties of the SortedWindow (under SpecSW).                          *)
(***************************************************************************)
\* C1: for every capacity N >= 1, after the k-th push of a non-NaN value the
\* value-ordered sequence equals the ascending sort of the last min(N, k)
\* pushed values, duplicates of the evicted value included.
C1_SortedIsSortOfLastN ==
    (sw.tag = "Ok" /\ sw.val.window_size >= 1)
        => sw.val.sorted_window = SortAsc(Held(sw.val.window_size))

\* a push on a full window evicted a value that had a duplicate in the window
C1_Witness ==
    /\ sw.tag = "Ok" /\ sw.val.window_size >= 2
    /\ call.op = "push_back" /\ call.ret = "Ok"
    /\ Len(hist) > sw.val.window_size
    /\ \E i \in (Len(hist) - sw.val.window_size + 1)..(Len(hist) - 1) :
          hist[i] = hist[Len(hist) - sw.val.window_size]
    /\ sw.val.sorted_window = SortAsc(Held(sw.val.window_size))

\* C8: in every state of a window, push_back(NaN) fails and leaves both the
\* value-ordered and the insertion-ordered sequence as they were.
C8_NaNPushFailsUnchanged ==
    [][(call'.op = "push_back" /\ is_nan(call'.arg))
          => (call'.ret = "Panic" /\ sw' = sw)]_vars

\* NaN was pushed on a full window of capacity >= 1, which is still intact
C8_Witness ==
    /\ sw.tag = "Ok" /\ sw.val.window_size >= 1
    /\ Len(sw.val.sorted_window) = sw.val.window_size
    /\ call.op = "push_back" /\ is_nan(call.arg) /\ call.ret = "Panic"
    /\ sw.val.unsorted_window = Held(sw.val.window_size)

\* C9: new(0) succeeds with an empty window, and every push_back on it
\* panics and leaves the window empty.
C9_CapacityZero ==
    /\ (call.op = "new" /\ call.arg = 0)
          => (call.ret = "Ok" /\ sw.tag = "Ok" /\ sw.val = SortedWindow_new(0))
    /\ (sw.tag = "Ok" /\ sw.val.window_size = 0)
          => /\ sw.val.sorted_window = <<>>
             /\ sw.val.unsorted_window = <<>>
             /\ call.op = "push_back" => call.ret = "Panic"

\* a non-NaN value was pushed on a window of capacity 0
C9_Witness ==
    /\ sw.tag = "Ok" /\ sw.val.window_size = 0
    /\ call.op = "push_back" /\ ~is_nan(call.arg) /\ call.ret = "Panic"
    /\ sw.val.sorted_window = <<>>

\* C10: front() and back() fail exactly on an empty window and otherwise
\* return the minimum and the maximum of the held values; rank i fails
\* exactly when i >= len() and otherwise returns the i-th smallest held
\* value; no read changes the window.
C10_Reads ==
    [][LET held == Held(sw.val.window_size)
       IN  /\ call'.op = "front" =>
                call'.ret = IF held = <<>> THEN [tag |-> "Panic"]
                            ELSE [tag |-> "Ok", val |-> MinOf(held)]
           /\ call'.op = "back" =>
                call'.ret = IF held = <<>> THEN [tag |-> "Panic"]
                            ELSE [tag |-> "Ok", val |-> MaxOf(held)]
           /\ call'.op = "index" =>
                call'.ret = IF call'.arg >= Len(held) THEN [tag |-> "Panic"]
                            ELSE [tag |-> "Ok", val |-> At(SortAsc(held), call'.arg)]
           /\ call'.op \in {"front", "back", "index"} => (sw' = sw /\ hist' = hist)
      ]_vars

\* back() returned the maximum of a window that has evicted values and
\* holds more than one distinct value
C10_Witness ==
    /\ sw.tag = "Ok" /\ Len(hist) > sw.val.window_size
    /\ call.op = "back" /\ call.ret.tag = "Ok"
    /\ call.ret.val = MaxOf(Held(sw.val.window_size))
    /\ call.ret.val # MinOf(Held(sw.val.window_size))

(***************************************************************************)
(* Properties of the Rolling decorator (under SpecRolling).                *)
(***************************************************************************)
\* a fresh statistic fed the values of s in order
RECURSIVE FedFresh(_)
FedFresh(s) ==
    IF s = <<>> THEN Sum_new
    ELSE Sum_update(FedFresh(SubSeq(s, 1, Len(s) - 1)), s[Len(s)])

\* C2: for a statistic with an exact inverse that is fresh when wrapped and
\* any window size N >= 1, after the i-th update Rolling::get() equals the
\* get() of a fresh statistic fed only the last min(N, i) values in order.
C2_RollingEquivalence ==
    (rolling.tag = "Ok" /\ base = Sum_new /\ call.op = "get" /\ Len(hist) >= 1)
        => call.ret = Sum_get(FedFresh(Held(rolling.val.window_size)))

\* get() was read after the window slid and differs from the running sum
C2_Witness ==
    /\ rolling.tag = "Ok" /\ base = Sum_new /\ call.op = "get"
    /\ Len(hist) > rolling.val.window_size
    /\ call.ret = Sum_get(FedFresh(Held(rolling.val.window_size)))
    /\ call.ret # Sum_get(FedFresh(hist))

\* C6: Rolling::new(stat, 0) returns an error, constructs no decorator and
\* leaves the statistic untouched; Rolling::new(stat, N) succeeds with an
\* empty FIFO for every N >= 1.
C6_RollingNew ==
    [][call'.op = "new" =>
          /\ stat' = stat
          /\ IF call'.arg = 0
             THEN call'.ret = "Err" /\ rolling'.tag = "Err"
             ELSE /\ call'.ret = "Ok" /\ rolling'.tag = "Ok"
                  /\ rolling'.val.window = <<>>
                  /\ rolling'.val.window_size = call'.arg
      ]_vars

\* a statistic that had been used was offered with window size 0
C6_Witness ==
    /\ call.op = "new" /\ call.arg = 0 /\ call.ret = "Err"
    /\ rolling.tag = "Err"
    /\ stat # Sum_new

(***************************************************************************)
(* Properties of the P-square Quantile (under SpecQuantile).               *)
(***************************************************************************)
\* C3: for q in [0,1] and a stream of at least 5 finite values, after each
\* update from the 5th on, get() lies between the smallest and the largest
\* value seen so far.
C3_GetWithinSeen ==
    (quantile.tag = "Ok" /\ InRange(quantile.val.q) /\ Len(hist) >= 5)
        => /\ Quantile_get(quantile.val).tag = "Ok"
           /\ RLe(MinOf(hist), Quantile_get(quantile.val).val)
           /\ RLe(Quantile_get(quantile.val).val, MaxOf(hist))

\* in the steady state get() is a marker height strictly inside the range
\* seen that is none of the observations
C3_Witness ==
    /\ quantile.tag = "Ok" /\ InRange(quantile.val.q) /\ Len(hist) >= 6
    /\ quantile.val.heights_sorted
    /\ Quantile_get(quantile.val).tag = "Ok"
    /\ \A i \in 1..Len(hist) : hist[i] # Quantile_get(quantile.val).val
    /\ RLt(MinOf(hist), Quantile_get(quantile.val).val)
    /\ RLt(Quantile_get(quantile.val).val, MaxOf(hist))

(***************************************************************************)
(* Properties of the RollingQuantile (under SpecRQ).                       *)
(***************************************************************************)
\* s[lo] + (s[hi] - s[lo]) * frac for idx = q * (L - 1), lo = floor(idx),
\* hi = min(lo + 1, L - 1), frac = idx - lo, L the length of s
Interpolated(s, q) ==
    LET idx == RMul(q, FromInt(Len(s) - 1))
        lo == RFloor(idx)[1]
        hi == MinInt(lo + 1, Len(s) - 1)
    IN  RAdd(At(s, lo), RMul(RSub(At(s, hi), At(s, lo)), RSub(idx, FromInt(lo))))

\* C4: for q in [0,1], window size N >= 1 and k >= 1 updates, get() equals
\* s[lo] + (s[hi] - s[lo]) * frac over the ascending sort s of the last
\* min(N, k) values, while the window fills and once it is full.
C4_RollingQuantileGet ==
    (rq.tag = "Ok" /\ InRange(rq.val.q) /\ rq.val.window_size >= 1 /\ Len(hist) >= 1)
        => \A oc \in BOOLEAN :
              RollingQuantile_get(rq.val, oc) =
                  [tag |-> "Ok",
                   val |-> Interpolated(SortAsc(Held(rq.val.window_size)), rq.val.q)]

\* a full window that has evicted values is read between two different
\* order statistics
C4_Witness ==
    /\ rq.tag = "Ok" /\ InRange(rq.val.q) /\ rq.val.window_size >= 2
    /\ Len(hist) > rq.val.window_size
    /\ rq.val.frac # FromInt(0)
    /\ At(rq.val.sorted_window.sorted_window, rq.val.lower)
          # At(rq.val.sorted_window.sorted_window, rq.val.higher)
    /\ RollingQuantile_get(rq.val, TRUE).tag = "Ok"
    /\ RollingQuantile_get(rq.val, TRUE).val
          = Interpolated(SortAsc(Held(rq.val.window_size)), rq.val.q)

(***************************************************************************)
(* Properties of the constructors of quantile.rs (under SpecNew).          *)
(***************************************************************************)
\* C5: Quantile::new(q) and RollingQuantile::new(q, window_size) return an
\* error and construct no estimator whenever q < 0 or q > 1, and succeed
\* for every q in [0,1].
C5_NewRejectsOutOfRange ==
    /\ call.op = "Quantile::new" =>
          (quantile.tag = IF InRange(call.arg) THEN "Ok" ELSE "Err")
    /\ call.op = "RollingQuantile::new" =>
          IF InRange(call.arg[1]) THEN (call.arg[2] >= 1 => rq.tag = "Ok")
          ELSE rq.tag = "Err"

\* C7: RollingQuantile::new(q, 0) returns a recoverable error for every q
\* in [0,1]: it neither panics nor constructs an estimator.
C7_ZeroWindowIsError ==
    (call.op = "RollingQuantile::new" /\ InRange(call.arg[1]) /\ call.arg[2] = 0)
        => rq.tag = "Err"

\* C11: for q in [0,1], after each of the first five updates (k = 1..5
\* values seen) get() returns the order statistic of 0-based rank
\* min(k - 1, floor(k * q)) among the k values seen so far.
C11_FirstFiveReads ==
    (quantile.tag = "Ok" /\ InRange(quantile.val.q) /\ Len(hist) \in 1..5)
        => Quantile_get(quantile.val) =
              [tag |-> "Ok",
               val |-> At(SortAsc(hist),
                          MinInt(Len(hist) - 1,
                                 RFloor(RMul(FromInt(Len(hist)), quantile.val.q))[1]))]

\* after the 5th update, an interior order statistic of five values that
\* do not arrive in order is read, neither the smallest nor the largest
C11_Witness ==
    /\ quantile.tag = "Ok" /\ InRange(quantile.val.q) /\ Len(hist) = 5
    /\ hist # SortAsc(hist)
    /\ Quantile_get(quantile.val).tag = "Ok"
    /\ Quantile_get(quantile.val).val = At(SortAsc(hist), 2)
    /\ RLt(MinOf(hist), Quantile_get(quantile.val).val)
    /\ RLt(Quantile_get(quantile.val).val, MaxOf(hist))

\* C12 as amended: once 6 or more observations have been applied,
\* heights_sorted is true and get() returns heights[2], the middle of the
\* five ascending marker heights, for every q in [0,1]; up to the 5th
\* update the flag is still false, and right after the 5th update get()
\* reads the rank min(4, floor(5q)) of the five values.
C12_SteadyStateRead ==
    (quantile.tag = "Ok" /\ InRange(quantile.val.q))
        => /\ Len(hist) >= 6 =>
                /\ quantile.val.heights_sorted
                /\ quantile.val.heights = SortAsc(quantile.val.heights)
                /\ Quantile_get(quantile.val)
                      = [tag |-> "Ok", val |-> At(quantile.val.heights, 2)]
           /\ Len(hist) <= 5 => ~quantile.val.heights_sorted
           /\ Len(hist) = 5 =>
                Quantile_get(quantile.val)
                    = [tag |-> "Ok",
                       val |-> At(SortAsc(hist),
                                  MinInt(4, RFloor(RMul(FromInt(5), quantile.val.q))[1]))]

\* in the steady state heights[2] is read where the read of the first five
\* updates would have taken another marker
C12_Witness ==
    /\ quantile.tag = "Ok" /\ InRange(quantile.val.q) /\ Len(hist) >= 6
    /\ quantile.val.heights_sorted
    /\ Quantile_get(quantile.val) = [tag |-> "Ok", val |-> At(quantile.val.heights, 2)]
    /\ height_at(quantile.val, filling_index(FromInt(5), quantile.val.q)).val
          # At(quantile.val.heights, 2)

\* C12 as stated: right after the 5th update and after every later one,
\* heights_sorted is true and get() returns heights[2].
C12_SortedFromFifth ==
    (quantile.tag = "Ok" /\ InRange(quantile.val.q) /\ Len(hist) >= 5)
        => /\ quantile.val.heights_sorted
           /\ Quantile_get(quantile.val)
                 = [tag |-> "Ok", val |-> At(quantile.val.heights, 2)]

\* C13: for window_size = 1 and q in [0,1], construction succeeds with
\* lower = higher = 0, and after every update get() succeeds and returns
\* the value passed to the most recent update.
C13_WindowOfOne ==
    /\ (call.op = "RollingQuantile::new" /\ InRange(call.arg[1]) /\ call.arg[2] = 1)
          => (rq.tag = "Ok" /\ rq.val.lower = 0 /\ rq.val.higher = 0)
    /\ (rq.tag = "Ok" /\ InRange(rq.val.q) /\ rq.val.window_size = 1 /\ Len(hist) >= 1)
          => /\ call.op = "update" /\ call.ret = "Ok"
             /\ \A oc \in BOOLEAN :
                   RollingQuantile_get(rq.val, oc)
                       = [tag |-> "Ok", val |-> hist[Len(hist)]]

\* a window of one has replaced a value by a different one, which get() returns
C13_Witness ==
    /\ rq.tag = "Ok" /\ InRange(rq.val.q) /\ rq.val.window_size = 1
    /\ rq.val.lower = 0 /\ rq.val.higher = 0
    /\ Len(hist) >= 2 /\ hist[Len(hist)] # hist[Len(hist) - 1]
    /\ RollingQuantile_get(rq.val, TRUE) = [tag |-> "Ok", val |-> hist[Len(hist)]]

(***************************************************************************)
(* The documentation example of Quantile (under SpecDoc).                  *)
(***************************************************************************)
\* C14: a Quantile with q = 0.5 fed 9, 7, 3, 2, 6, 1, 8, 5, 4 in that
\* order, get() being called after the updates, returns exactly 5 from
\* get() after the ninth update.
C14_DocExample ==
    (quantile.tag = "Ok" /\ quantile.val.q = <<1, 2>> /\ hist = DocStream)
        => /\ Quantile_get(quantile.val) = [tag |-> "Ok", val |-> FromInt(5)]
           /\ call.op = "get" => call.ret = [tag |-> "Ok", val |-> FromInt(5)]

\* get() was called after the ninth update of the example and returned 5
C14_Witness ==
    /\ quantile.tag = "Ok" /\ quantile.val.q = <<1, 2>> /\ hist = DocStream
    /\ Len(hist) = 9
    /\ quantile.val.heights_sorted
    /\ call.op = "get" /\ call.ret = [tag |-> "Ok", val |-> FromInt(5)]

(***************************************************************************)
(* Properties of the RollingPeakToPeak (under SpecPtp).                    *)
(***************************************************************************)
\* C15: for every window size N >= 1 and k >= 1 updates, get() equals the
\* maximum minus the minimum of the last min(N, k) observations and is
\* never negative, and the min tracker and the max tracker hold the same
\* window.
C15_RollingPeakToPeak ==
    (ptp.tag = "Ok" /\ ptp.val.min.sorted_window.window_size >= 1)
        => /\ ptp.val.min.sorted_window = ptp.val.max.sorted_window
           /\ ptp.val.min.sorted_window.unsorted_window
                 = Held(ptp.val.min.sorted_window.window_size)
           /\ Len(hist) >= 1 =>
                 /\ RollingPeakToPeak_get(ptp.val)
                       = [tag |-> "Ok",
                          val |-> RSub(MaxOf(Held(ptp.val.min.sorted_window.window_size)),
                                       MinOf(Held(ptp.val.min.sorted_window.window_size)))]
                 /\ RLe(FromInt(0), RollingPeakToPeak_get(ptp.val).val)
                 /\ call.op = "get" => call.ret = RollingPeakToPeak_get(ptp.val)

\* get() was read after the window slid: the spread of the window is
\* positive and smaller than the spread of the whole stream
C15_Witness ==
    /\ ptp.tag = "Ok" /\ ptp.val.min.sorted_window.window_size >= 2
    /\ Len(hist) > ptp.val.min.sorted_window.window_size
    /\ call.op = "get" /\ call.ret.tag = "Ok"
    /\ RLt(FromInt(0), call.ret.val)
    /\ RLt(call.ret.val, RSub(MaxOf(hist), MinOf(hist)))
    /\ call.ret.val = RSub(MaxOf(Held(ptp.val.min.sorted_window.window_size)),
                           MinOf(Held(ptp.val.min.sorted_window.window_size)))

(***************************************************************************)
(* Invariants of the SortedWindow (under SpecSW).                          *)
(***************************************************************************)
\* C16: in every state reached by push_back calls on a window of capacity
\* N >= 1, the insertion-ordered and the value-ordered sequence hold the
\* same multiset and have the same length min(N, k) after k non-NaN pushes,
\* which never exceeds N and never shrinks, and the insertion-ordered
\* sequence is the last min(N, k) pushed values in arrival order.
C16_WindowInvariant ==
    [][(sw'.tag = "Ok" /\ sw'.val.window_size >= 1)
          => /\ SameMultiset(sw'.val.unsorted_window, sw'.val.sorted_window)
             /\ Len(sw'.val.unsorted_window) = MinInt(sw'.val.window_size, Len(hist'))
             /\ Len(sw'.val.sorted_window) <= sw'.val.window_size
             /\ sw'.val.unsorted_window
                   = LastN(hist', MinInt(sw'.val.window_size, Len(hist')))
             /\ sw.tag = "Ok" =>
                   Len(sw'.val.sorted_window) >= Len(sw.val.sorted_window)
      ]_vars

\* a push on a full window evicted the oldest value, which differs from the
\* value pushed, and the arrival order of the window is not its value order
C16_Witness ==
    /\ sw.tag = "Ok" /\ sw.val.window_size >= 2
    /\ call.op = "push_back" /\ call.ret = "Ok"
    /\ Len(hist) > sw.val.window_size
    /\ hist[Len(hist) - sw.val.window_size] # call.arg
    /\ sw.val.unsorted_window = Held(sw.val.window_size)
    /\ sw.val.unsorted_window # sw.val.sorted_window
    /\ SameMultiset(sw.val.unsorted_window, sw.val.sorted_window)

(***************************************************************************)
(* Invariants of the Rolling decorator (under SpecRolling).                *)
(***************************************************************************)
\* C17: for a window size N >= 1, after the i-th update the FIFO holds the
\* last min(N, i) observations in arrival order, its length never exceeds
\* N, and get() does not change it.
C17_FifoIsLastN ==
    [][rolling'.tag = "Ok"
          => /\ rolling'.val.window_size >= 1
             /\ rolling'.val.window
                   = LastN(hist', MinInt(rolling'.val.window_size, Len(hist')))
             /\ Len(rolling'.val.window) <= rolling'.val.window_size
             /\ call'.op = "get" => rolling' = rolling
      ]_vars

\* get() was read on a FIFO that has evicted values and holds two
\* different observations
C17_Witness ==
    /\ rolling.tag = "Ok" /\ rolling.val.window_size >= 2
    /\ Len(hist) > rolling.val.window_size
    /\ call.op = "get"
    /\ rolling.val.window = Held(rolling.val.window_size)
    /\ rolling.val.window[1] # rolling.val.window[Len(rolling.val.window)]
    /\ hist[Len(hist) - rolling.val.window_size] # rolling.val.window[1]

\* C18: when the FIFO is at capacity and revert(oldest) reports an error,
\* update(x) fails fatally, x is not pushed and update(x) is not applied to
\* the statistic; when the FIFO is not at capacity revert is not called.
C18_RevertErrorIsFatal ==
    [][call'.op = "update"
          => /\ Len(rolling.val.window) # rolling.val.window_size
                   => call'.reverted = <<>>
             /\ Len(rolling.val.window) = rolling.val.window_size
                   => /\ Len(call'.reverted) = 1
                      /\ call'.reverted[1].arg = Head(rolling.val.window)
             /\ (call'.reverted # <<>> /\ call'.reverted[1].ret = "Err")
                   => /\ call'.ret = "Panic"
                      /\ rolling' = rolling
                      /\ stat' = stat
                      /\ hist' = hist
      ]_vars

\* revert failed on a full FIFO of two or more values: the update panicked
\* and the FIFO still holds the oldest value and not the value offered
C18_Witness ==
    /\ rolling.tag = "Ok" /\ rolling.val.window_size >= 2
    /\ Len(rolling.val.window) = rolling.val.window_size
    /\ call.op = "update" /\ call.ret = "Panic"
    /\ call.reverted = <<[arg |-> Head(rolling.val.window), ret |-> "Err"]>>
    /\ call.arg # rolling.val.window[Len(rolling.val.window)]
    /\ rolling.val.window = Held(rolling.val.window_size)
    /\ Sum_get(stat) = Sum_get(FedFresh(Held(rolling.val.window_size)))

(***************************************************************************)
(* Invariants of the P-square Quantile (under SpecQuantile).               *)
(***************************************************************************)
\* s is non-decreasing
NonDecreasing(s) == \A i \in 1..(Len(s) - 1) : RLe(s[i], s[i + 1])

\* C19: for q in [0,1], in each update from the 6th on the five marker
\* heights are non-decreasing as find_k and adjust leave them, so the final
\* sort of update does not reorder them.
C19_HeightsStayOrdered ==
    (quantile.tag = "Ok" /\ InRange(quantile.val.q) /\ call.op = "update"
        /\ Len(hist) >= 6)
        => /\ call.ret = "Ok"
           /\ Len(call.before_sort) = 5
           /\ NonDecreasing(call.before_sort)
           /\ quantile.val.heights = call.before_sort

\* a steady-state update moved an interior marker to a height that is none
\* of the observations, and the heights are strictly increasing
C19_Witness ==
    /\ quantile.tag = "Ok" /\ InRange(quantile.val.q) /\ Len(hist) >= 7
    /\ call.op = "update" /\ call.ret = "Ok"
    /\ \A i \in 1..4 : RLt(quantile.val.heights[i], quantile.val.heights[i + 1])
    /\ \E i \in 2..4 : \A j \in 1..Len(hist) : hist[j] # quantile.val.heights[i]

\* C20: in every state of an estimator that has received n >= 5
\* observations, the marker positions are integers with position[0] = 1,
\* position[4] = n and position[0] < position[1] < ... < position[4]; so
\* no divisor of the parabolic and linear formulas is zero and no height
\* is the result of a division by zero.
C20_PositionsStrictlyIncrease ==
    (quantile.tag = "Ok" /\ Len(hist) >= 5)
        => /\ Len(quantile.val.position) = 5
           /\ \A i \in 1..5 : quantile.val.position[i][2] = 1
           /\ quantile.val.position[1] = FromInt(1)
           /\ quantile.val.position[5] = FromInt(Len(hist))
           /\ \A i \in 1..4 : RLt(quantile.val.position[i], quantile.val.position[i + 1])
           /\ \A i \in 1..5 : ~is_nan(quantile.val.heights[i])

\* in the steady state an interior marker has moved to a computed height
\* and the positions have left their initial values 1..5
C20_Witness ==
    /\ quantile.tag = "Ok" /\ Len(hist) >= 7
    /\ call.op = "update" /\ call.ret = "Ok"
    /\ quantile.val.position[1] = FromInt(1)
    /\ quantile.val.position[5] = FromInt(Len(hist))
    /\ \A i \in 1..4 : RLt(quantile.val.position[i], quantile.val.position[i + 1])
    /\ RLt(FromInt(3), quantile.val.position[3])
    /\ \E i \in 2..4 : \A j \in 1..Len(hist) : hist[j] # quantile.val.heights[i]

\* C21: for q in [0,1], after every update from the 5th on, heights[0] is
\* the minimum and heights[4] the maximum of all values seen so far.
C21_ExtremeMarkers ==
    (quantile.tag = "Ok" /\ InRange(quantile.val.q) /\ Len(hist) >= 5)
        => /\ Len(quantile.val.heights) = 5
           /\ At(quantile.val.heights, 0) = MinOf(hist)
           /\ At(quantile.val.heights, 4) = MaxOf(hist)

\* a steady-state update brought a value above every value seen before,
\* which is now heights[4], after an earlier one had lowered heights[0]
C21_Witness ==
    /\ quantile.tag = "Ok" /\ InRange(quantile.val.q) /\ Len(hist) >= 7
    /\ call.op = "update" /\ call.ret = "Ok"
    /\ \A j \in 1..(Len(hist) - 1) : RLt(hist[j], call.arg)
    /\ At(quantile.val.heights, 4) = call.arg
    /\ \E j \in 6..(Len(hist) - 1) : \A i \in 1..(j - 1) : RLt(hist[j], hist[i])
    /\ At(quantile.val.heights, 0) = MinOf(hist)

\* the estimator self after n updates, fresh being the estimator as new made it
LifecycleAfter(self, n, fresh) ==
    /\ Len(self.heights) = MinInt(n, 5)
    /\ n <= 5 =>
          /\ self.position = fresh.position
          /\ self.marker_position = fresh.marker_position
          /\ ~self.heights_sorted
    /\ n >= 6 =>
          /\ self.heights_sorted
          /\ self.position[5] = FromInt(n)
          /\ \A i \in 1..5 :
                self.marker_position[i]
                    = RAdd(fresh.marker_position[i],
                           RMul(FromInt(n - 5), self.desired_marker_position[i]))

\* C22: the first 5 updates only collect values: heights has min(n, 5)
\* elements after n updates and never more than 5, and position and
\* marker_position keep their construction-time values; every update from
\* the 6th on runs the cycle once: marker_position has moved on by
\* desired_marker_position once per such update and the last position counts
\* the observations; heights_sorted never returns to false.
C22_Lifecycle ==
    /\ [](quantile.tag = "Ok"
             => LifecycleAfter(quantile.val, Len(hist), Quantile_new(quantile.val.q).val))
    /\ [][(quantile.tag = "Ok" /\ quantile.val.heights_sorted)
             => quantile'.val.heights_sorted]_vars

\* the cycle has run more than once: the target of the middle marker has
\* moved on twice or more and the flag is set
C22_Witness ==
    /\ quantile.tag = "Ok" /\ InRange(quantile.val.q) /\ Len(hist) >= 7
    /\ call.op = "update" /\ call.ret = "Ok"
    /\ quantile.val.heights_sorted
    /\ Len(quantile.val.heights) = 5
    /\ quantile.val.marker_position[3]
          = RAdd(Quantile_new(quantile.val.q).val.marker_position[3],
                 RMul(FromInt(Len(hist) - 5), quantile.val.desired_marker_position[3]))
    /\ quantile.val.marker_position[3] # Quantile_new(quantile.val.q).val.marker_position[3]

(***************************************************************************)
(* Ranks and reads of the RollingQuantile (SpecRQ, SpecRQNonNaN).          *)
(***************************************************************************)
\* the ranks are those of a window of length len for the target q:
\* lower = floor(q * (len - 1)) and higher = min(lower + 1, len - 1)
RanksFor(lower, higher, q, len) ==
    /\ lower = RFloor(RMul(q, FromInt(len - 1)))[1]
    /\ higher = MinInt(lower + 1, len - 1)
    /\ lower <= higher /\ higher <= len - 1

\* C23: for q in [0,1] and a window size N >= 1, the ranks get() uses are
\* lower = floor(q * (L - 1)) and higher = min(lower + 1, L - 1), with
\* lower <= higher <= L - 1, L being the current length while the window
\* fills and N once it is full (the values cached by new).
C23_RanksOfGet ==
    (rq.tag = "Ok" /\ InRange(rq.val.q) /\ rq.val.window_size >= 1)
        => /\ RanksFor(rq.val.lower, rq.val.higher, rq.val.q, rq.val.window_size)
           /\ Len(hist) >= 1 =>
                 \A oc \in BOOLEAN :
                    /\ prepare(rq.val, oc).tag = "Ok"
                    /\ RanksFor(prepare(rq.val, oc).lower, prepare(rq.val, oc).higher,
                                rq.val.q, SortedWindow_len(rq.val.sorted_window))

\* the ranks p that prepare returned are below the length of the window
RanksInBounds(self, p) ==
    /\ p.tag = "Ok"
    /\ p.lower < SortedWindow_len(self.sorted_window)
    /\ p.higher < SortedWindow_len(self.sorted_window)

\* the value g that get() returned lies between the values lo and hi
ReadWithin(g, lo, hi) == g.tag = "Ok" /\ RLe(lo, g.val) /\ RLe(g.val, hi)

\* every value of s is finite
AllFinite(s) == \A i \in 1..Len(s) : is_finite(s[i])

\* C24 as amended: for q in [0,1], a window size N >= 1 and a stream of
\* non-NaN values, after at least one update both ranks get() reads are
\* below the current length, while the window fills and once it is full;
\* and when the values currently in the window are finite, as they are for
\* every stream of finite values, the result lies between the minimum and
\* the maximum of the window.
C24_GetInBounds ==
    (rq.tag = "Ok" /\ InRange(rq.val.q) /\ rq.val.window_size >= 1 /\ Len(hist) >= 1)
        => \A oc \in BOOLEAN :
              /\ RanksInBounds(rq.val, prepare(rq.val, oc))
              /\ RollingQuantile_get(rq.val, oc).tag = "Ok"
              /\ AllFinite(Held(rq.val.window_size))
                    => ReadWithin(RollingQuantile_get(rq.val, oc),
                                  MinOf(Held(rq.val.window_size)),
                                  MaxOf(Held(rq.val.window_size)))

\* a full window of two or more finite values is read at the top rank, where
\* the cached higher rank is below the lower one, after an infinite value
\* has been pushed and has left the window
C24_Witness ==
    /\ rq.tag = "Ok" /\ rq.val.q = FromInt(1) /\ rq.val.window_size >= 2
    /\ Len(hist) > rq.val.window_size
    /\ rq.val.higher < rq.val.lower
    /\ ~AllFinite(hist) /\ AllFinite(Held(rq.val.window_size))
    /\ RanksInBounds(rq.val, prepare(rq.val, TRUE))
    /\ RollingQuantile_get(rq.val, TRUE)
          = [tag |-> "Ok", val |-> MaxOf(Held(rq.val.window_size))]
    /\ RLt(MaxOf(Held(rq.val.window_size)), MaxOf(hist))
    /\ RLt(MinOf(Held(rq.val.window_size)), MaxOf(Held(rq.val.window_size)))

\* C24 as stated: for q in [0,1], a window size N >= 1 and any stream of
\* non-NaN values, after at least one update both ranks get() reads are
\* below the current length and the result lies between the minimum and
\* the maximum of the window.
C24_NonNaNGetInBounds ==
    (rq.tag = "Ok" /\ InRange(rq.val.q) /\ rq.val.window_size >= 1 /\ Len(hist) >= 1)
        => \A oc \in BOOLEAN :
              /\ RanksInBounds(rq.val, prepare(rq.val, oc))
              /\ ReadWithin(RollingQuantile_get(rq.val, oc),
                            MinOf(Held(rq.val.window_size)),
                            MaxOf(Held(rq.val.window_size)))

(***************************************************************************)
(* Reads of estimators without observations (under SpecRead).              *)
(***************************************************************************)
\* C25: for every q in [0,1], get() on a Quantile that has received no
\* observation and get() on a RollingQuantile whose window is empty fail
\* fatally and return no value, and the estimator is unchanged by the read.
C25_EmptyReadIsFatal ==
    [][/\ (call'.op = "get" /\ InRange(quantile.val.q) /\ quantile.val.heights = <<>>)
             => (call'.ret = [tag |-> "Panic"] /\ quantile' = quantile)
       /\ (call'.op = "RollingQuantile::get" /\ InRange(rq.val.q)
               /\ SortedWindow_len(rq.val.sorted_window) = 0)
             => (call'.ret = [tag |-> "Panic"] /\ rq' = rq)
      ]_vars

\* both estimators are constructed and neither has an observation; get()
\* on the empty window just panicked and get() on the Quantile panics too
C25_Witness ==
    /\ quantile.tag = "Ok" /\ InRange(quantile.val.q) /\ quantile.val.heights = <<>>
    /\ rq.tag = "Ok" /\ InRange(rq.val.q) /\ rq.val.window_size >= 1
    /\ SortedWindow_len(rq.val.sorted_window) = 0
    /\ call.op = "RollingQuantile::get" /\ call.ret = [tag |-> "Panic"]
    /\ Quantile_get(quantile.val) = [tag |-> "Panic"]

====
